---- MODULE Spec2Model ----
(***************************************************************************)
(* Model of solve_rota.py: read_inputs -> solve -> export_to_excel, and of  *)
(* the three leave front ends that maintain the Leave sheet it reads:      *)
(* leave_frontend_streamlit_master.py (the admin app on a shared master    *)
(* workbook), leave_requests_dropbox_app.py (one JSON file per request,    *)
(* compiled into the workbook) and leave_frontend_streamlit.py (an         *)
(* uploaded workbook).                                                     *)
(*                                                                         *)
(* Dates are day numbers counted from a Monday, so that date.weekday() is  *)
(* d % 7 with Monday = 0.  A name is a string, "" is the empty cell.  WTE  *)
(* is kept in tenths (1.0 is 10).  A Python dict is a function whose       *)
(* DOMAIN is the set of keys; Optional values are sequences of length <= 1.*)
(***************************************************************************)
EXTENDS Integers, Sequences, FiniteSets, TLC

VARIABLES wb, args, pc, inp, sol, out

\* app: the program that runs; leave_ws: the Leave sheet of the workbook file
\* a front end writes; requests: the JSON files of the requests folder;
\* uploaded: the Leave sheet of the uploaded workbook; lock: the lock file
\* exists; backed_up: a backup file exists; rerun: st.rerun() is pending;
\* ui: the last handler that ran, with its form dates and its outcome
VARIABLES app, leave_ws, requests, uploaded, lock, backed_up, rerun, ui

\* sessions: for each browser session of the admin app, where its script
\* is, what it shows and the workbook it holds in memory; history: which
\* session wrote the lock file last, which record each row of the file
\* holds, which rows a delete has freed, how many forms were submitted
\* (kept to state properties, the program has no such data)
VARIABLES sessions, history

rota_vars == <<wb, args, pc, inp, sol, out>>

session_vars == <<sessions, history>>

leave_vars ==
    <<app, leave_ws, requests, uploaded, lock, backed_up, rerun, ui, sessions, history>>

vars == <<wb, args, pc, inp, sol, out,
          app, leave_ws, requests, uploaded, lock, backed_up, rerun, ui,
          sessions, history>>

(* ------------------------------ bounds -------------------------------- *)

\* latest cycle end day of the calendar family of input workbooks
MaxEnd == 13
\* latest first day of an approved/unapproved leave row
MaxLeaveStart == 8
\* longest cycle, in weeks, of the four-consultant scenario family
ScenarioWeeks == 4
\* number of rows of the Leave sheet below its header row
MaxRow == 2
\* number of request files the requests folder can hold
MaxRequests == 2
\* number of forms two sessions of the admin app submit between them
MaxSubmits == 3

(* ----------------------------- calendar ------------------------------- *)

\* excel_date(None) / excel_date(""): no date
NoDate == -1

weekday(d) == d % 7

\* a date cell is returned as it is, an empty cell (NoDate) as no date
excel_date(v) == v

RECURSIVE daterange(_, _)
daterange(d0, d1) == IF d0 <= d1 THEN <<d0>> \o daterange(d0 + 1, d1) ELSE <<>>

Range(s) == {s[i] : i \in DOMAIN s}

week_monday(d) == d - weekday(d)

\* mutant: a Monday start is passed over for the Monday of the next week
first_monday_after(start) == start + (7 - weekday(start))

first_monday(start) == start + ((7 - weekday(start)) % 7)

RECURSIVE weeks_from(_, _)
weeks_from(d, end) == IF d <= end THEN <<d>> \o weeks_from(d + 7, end) ELSE <<>>

weeks_of(start, end) == weeks_from(first_monday(start), end)

block_types == <<"AB1", "AB2", "DMonThu", "WeekendAB", "WeekendMixed">>

Kinds == Range(block_types)

\* mutant: WeekendAB without its Monday tail
block_offsets_no_tail(b) ==
    CASE b = "AB1" -> <<0, 1, 2, 3>>
      [] b = "AB2" -> <<1, 2, 3, 4>>
      [] b = "DMonThu" -> <<0, 1, 2, 3>>
      [] b = "WeekendAB" -> <<4, 5, 6>>
      [] b = "WeekendMixed" -> <<4, 5, 6>>

block_offsets(b) ==
    CASE b = "AB1" -> <<0, 1, 2, 3>>
      [] b = "AB2" -> <<1, 2, 3, 4>>
      [] b = "DMonThu" -> <<0, 1, 2, 3>>
      [] b = "WeekendAB" -> <<4, 5, 6, 7>>
      [] b = "WeekendMixed" -> <<4, 5, 6>>

block_days(week_mon, b) ==
    [k \in DOMAIN block_offsets(b) |-> week_mon + block_offsets(b)[k]]

\* dict.get(key, default)
Get(dict, key, default) == IF key \in DOMAIN dict THEN dict[key] ELSE default

EmptyDict == <<>>

(* --------------------------- read_inputs ------------------------------ *)

\* get_cfg of read_inputs: the label must be present
cfg_has(cfg, label) == label \in DOMAIN cfg

\* rows of the Consultants sheet with a name, in sheet order
RECURSIVE named_rows(_)
named_rows(rows) ==
    IF rows = <<>> THEN <<>>
    ELSE IF Head(rows).name = "" THEN named_rows(Tail(rows))
    ELSE <<Head(rows)>> \o named_rows(Tail(rows))

RECURSIVE active_rows(_)
active_rows(rows) ==
    IF rows = <<>> THEN <<>>
    ELSE IF Head(rows).active THEN <<Head(rows)>> \o active_rows(Tail(rows))
    ELSE active_rows(Tail(rows))

\* mutant: the active filter is forgotten
read_consultants_unfiltered(rows) == named_rows(rows)

read_consultants(rows) == active_rows(named_rows(rows))

\* a Leave row counts when it has a name, is approved and has both dates
leave_row_counts(r) ==
    /\ r.name # ""
    /\ r.approved
    /\ excel_date(r.start) # NoDate
    /\ excel_date(r.end) # NoDate

\* the days of the counted Leave rows of one name
leave_days(rows, nm) ==
    UNION {Range(daterange(excel_date(rows[k].start), excel_date(rows[k].end))) :
             k \in {j \in DOMAIN rows : leave_row_counts(rows[j]) /\ rows[j].name = nm}}

\* leave_map of read_inputs: keys are the names of the active consultants
read_leave(rows, consultants) ==
    [nm \in {consultants[i].name : i \in DOMAIN consultants} |-> leave_days(rows, nm)]

(* ------------------------------- solve -------------------------------- *)

RECURSIVE SumOver(_, _)
\* sum of f[x] over x in S
SumOver(f, S) ==
    IF S = {} THEN 0
    ELSE LET x == CHOOSE y \in S : TRUE IN f[x] + SumOver(f, S \ {x})

RECURSIVE SumTo(_, _)
\* f[1] + ... + f[n]
SumTo(f, n) == IF n = 0 THEN 0 ELSE f[n] + SumTo(f, n - 1)

Bit(p) == IF p THEN 1 ELSE 0

Abs(n) == IF n < 0 THEN -n ELSE n

\* An assignment gives every week index w and block type b the one index i
\* with x[(w,b,i)] = 1: the coverage constraint sum_i x[(w,b,i)] == 1.

\* mutant: WeekendMixed is left out of the eligible_d rule
eligible_ok_d_weekdays(c, b) ==
    /\ (~c.eligible_a) => b \notin {"AB1", "AB2", "WeekendAB", "WeekendMixed"}
    /\ (~c.eligible_d) => b \notin {"DMonThu"}

\* eligibility: x[(w,b,i)] == 0 for a block the consultant is not eligible for
eligible_ok(c, b) ==
    /\ (~c.eligible_a) => b \notin {"AB1", "AB2", "WeekendAB", "WeekendMixed"}
    /\ (~c.eligible_d) => b \notin {"DMonThu", "WeekendMixed"}

\* mutant: only the first day of the block is looked up in the leave set
leave_ok_first_day(leave, nm, wk, b) == block_days(wk, b)[1] \notin Get(leave, nm, {})

\* leave: x[(w,b,i)] == 0 when any day of the block is in the leave set
leave_ok(leave, nm, wk, b) ==
    ~ \E d \in Range(block_days(wk, b)) : d \in Get(leave, nm, {})

\* the consultants that may hold block b of the week starting wk
candidates(I, wk, b) ==
    {i \in DOMAIN I.consultants :
        /\ eligible_ok(I.consultants[i], b)
        /\ leave_ok(I.leave, I.consultants[i].name, wk, b)}

weekend_count(f, i) == Bit(f["WeekendAB"] = i) + Bit(f["WeekendMixed"] = i)

\* mutant: the indicator of holding a block instead of the number of blocks
any_count_indicator(f, i) == Bit(\E b \in Kinds : f[b] = i)

\* sum(x[(w,b,i)] for b in block_types)
any_count(f, i) == Cardinality({b \in Kinds : f[b] = i})

\* mutant: the last consultant is skipped
one_block_per_week_short(f, N) ==
    \A i \in 1..(N - 1) : any_count(f, i) <= 1

\* sum_b x[(w,b,i)] <= 1 for every consultant
one_block_per_week(f, N) ==
    \A i \in 1..N : any_count(f, i) <= 1

\* block giving role A / role D on weekday day (0..4) of the constraint loop
xor_a_block(day) ==
    IF day \in {0, 2} THEN "AB1" ELSE IF day \in {1, 3} THEN "AB2" ELSE "WeekendAB"

xor_d_block(day) == IF day <= 3 THEN "DMonThu" ELSE "WeekendMixed"

\* mutant: the loop stops at Thursday
cardiac_xor_ok_mon_thu(cons, f) ==
    \A day \in 0..3 :
        Bit(cons[f[xor_a_block(day)]].cardiac)
          + Bit(cons[f[xor_d_block(day)]].cardiac) = 1

\* A_c + D_c == 1 on each of the five weekdays
cardiac_xor_ok(cons, f) ==
    \A day \in 0..4 :
        Bit(cons[f[xor_a_block(day)]].cardiac)
          + Bit(cons[f[xor_d_block(day)]].cardiac) = 1

\* the assignments of one week that satisfy the constraints within the week
week_solutions(I, wk) ==
    {f \in [AB1 : candidates(I, wk, "AB1"),
            AB2 : candidates(I, wk, "AB2"),
            DMonThu : candidates(I, wk, "DMonThu"),
            WeekendAB : candidates(I, wk, "WeekendAB"),
            WeekendMixed : candidates(I, wk, "WeekendMixed")] :
        /\ one_block_per_week(f, Len(I.consultants))
        /\ cardiac_xor_ok(I.consultants, f)}

\* mutant: only WeekendAB counts as a weekend
no_consecutive_weekends_ok_ab(hard, f, g, N) ==
    hard => \A i \in 1..N : Bit(f["WeekendAB"] = i) + Bit(g["WeekendAB"] = i) <= 1

\* wknd_this + wknd_next <= 1, added only under hard_no_consecutive_weekends
no_consecutive_weekends_ok(hard, f, g, N) ==
    hard => \A i \in 1..N : weekend_count(f, i) + weekend_count(g, i) <= 1

\* mutant: the bar is applied to the weekend blocks only
week_gap_ok_weekend(hard, f, g, N) ==
    hard => \A i \in 1..N : weekend_count(f, i) + weekend_count(g, i) <= 1

\* any_this + any_next <= 1, added only under hard_week_gap
week_gap_ok(hard, f, g, N) ==
    hard => \A i \in 1..N : any_count(f, i) + any_count(g, i) <= 1

adjacent_ok(flags, f, g, N) ==
    /\ no_consecutive_weekends_ok(flags.hard_no_consecutive_weekends, f, g, N)
    /\ week_gap_ok(flags.hard_week_gap, f, g, N)

RECURSIVE solutions_upto(_, _, _, _)
\* the assignments of weeks 1..k satisfying every hard constraint
solutions_upto(I, flags, weeks, k) ==
    IF k = 0 THEN {<<>>}
    ELSE LET prev == solutions_upto(I, flags, weeks, k - 1)
             here == week_solutions(I, weeks[k])
         IN UNION {{Append(s, f) :
                      f \in {g \in here :
                               k > 1 => adjacent_ok(flags, s[k - 1], g, Len(I.consultants))}} :
                   s \in prev}

feasible_set(I, flags) ==
    LET weeks == weeks_of(I.start, I.end)
    IN solutions_upto(I, flags, weeks, Len(weeks))

(* ----------------------------- objective ------------------------------ *)

\* mutant: WeekendMixed weighs as much as the other blocks
block_weight_flat(b) == 4

block_weight(b) == IF b = "WeekendMixed" THEN 3 ELSE 4

SCALE == 1000

\* int(round(n / d)) for n >= 0, d > 0: Python rounds a tie to the even integer
round_div(n, d) ==
    LET q == n \div d
        r == n % d
    IN IF 2 * r < d THEN q
       ELSE IF 2 * r > d THEN q + 1
       ELSE IF q % 2 = 0 THEN q ELSE q + 1

\* sum(wte) if sum(wte) > 0 else 1.0, in tenths
sum_wte(cons) ==
    LET s == SumTo([i \in DOMAIN cons |-> cons[i].wte], Len(cons))
    IN IF s > 0 THEN s ELSE 10

\* int(round(all * (wte[i] / sum_wte) * SCALE))
expected_share(all, cons, i) == round_div(all * cons[i].wte * SCALE, sum_wte(cons))

\* sum of term[w][b] over every week w and block type b
SumSlots(W, term) ==
    SumTo([w \in 1..W |-> SumTo([k \in 1..5 |-> term[w][block_types[k]]], 5)], W)

total_duty(a, i) ==
    SumSlots(Len(a), [w \in 1..Len(a) |-> [b \in Kinds |->
                         Bit(a[w][b] = i) * block_weight(b)]])

bh_count(weeks, bank_holidays, w, b) ==
    Cardinality({k \in DOMAIN block_days(weeks[w], b) :
                    block_days(weeks[w], b)[k] \in bank_holidays})

bh_duty(a, weeks, bank_holidays, i) ==
    SumSlots(Len(a), [w \in 1..Len(a) |-> [b \in Kinds |->
                         Bit(a[w][b] = i) * bh_count(weeks, bank_holidays, w, b)]])

weekend_blocks(a, i) == SumTo([w \in 1..Len(a) |-> weekend_count(a[w], i)], Len(a))

\* expected, expected_bh, expected_w: the rounded WTE shares, per consultant
expected_shares(I) ==
    LET cons == I.consultants
        weeks == weeks_of(I.start, I.end)
        allbh == [w \in 1..Len(weeks) |-> [b \in Kinds |->
                    bh_count(weeks, I.bank_holidays, w, b)]]
        total_all == SumTo([k \in 1..5 |-> block_weight(block_types[k])], 5) * Len(weeks)
        bh_all == SumSlots(Len(weeks), allbh)
        weekend_all == 2 * Len(weeks)
    IN [T |-> [i \in DOMAIN cons |-> expected_share(total_all, cons, i)],
        B |-> [i \in DOMAIN cons |-> expected_share(bh_all, cons, i)],
        W |-> [i \in DOMAIN cons |-> expected_share(weekend_all, cons, i)]]

\* sum(devT) + 3*sum(devBH) + 2*sum(devW) of assignment a
objective_value(I, exp, a) ==
    LET N == Len(I.consultants)
        weeks == weeks_of(I.start, I.end)
        devT == [i \in 1..N |-> Abs(total_duty(a, i) * SCALE - exp.T[i])]
        devBH == [i \in 1..N |->
                    Abs(bh_duty(a, weeks, I.bank_holidays, i) * SCALE - exp.B[i])]
        devW == [i \in 1..N |-> Abs(weekend_blocks(a, i) * SCALE - exp.W[i])]
    IN SumTo(devT, N) + 3 * SumTo(devBH, N) + 2 * SumTo(devW, N)

\* the assignments no other feasible assignment beats
optimal_set(F, obj) ==
    LET vals == {obj[a] : a \in F}
        best == CHOOSE v \in vals : \A u \in vals : v <= u
    IN {a \in F : obj[a] = best}

\* sol["assignments"]: for every week, the name of the first i with x = 1
extract_assignments(I, a) ==
    LET weeks == weeks_of(I.start, I.end)
    IN [wk \in Range(weeks) |->
          LET w == CHOOSE k \in DOMAIN weeks : weeks[k] = wk
          IN [b \in Kinds |-> I.consultants[a[w][b]].name]]

empty_assignments(I) == [wk \in Range(weeks_of(I.start, I.end)) |-> EmptyDict]

solution(I, status, a, value) ==
    [status |-> status,
     objective |-> <<value>>,
     weeks |-> weeks_of(I.start, I.end),
     assignments |-> extract_assignments(I, a)]

no_solution(I, status) ==
    [status |-> status,
     objective |-> <<>>,
     weeks |-> weeks_of(I.start, I.end),
     assignments |-> empty_assignments(I)]

(* -------------------------- export_to_excel --------------------------- *)

\* get_cfg of export_to_excel: None (here <<>>) when the label is absent
get_cfg(cfg, label) == IF label \in DOMAIN cfg THEN <<cfg[label]>> ELSE <<>>

\* mutant: str(None) of an absent label, without the fallback to ""
prev_A_for_start_str_none(cfg) ==
    LET v == get_cfg(cfg, "A_Consultant_DayBeforeStart")
    IN IF v = <<>> THEN "None" ELSE v[1]

\* str(get_cfg("A_Consultant_DayBeforeStart") or "")
prev_A_for_start(cfg) ==
    LET v == get_cfg(cfg, "A_Consultant_DayBeforeStart")
    IN IF v = <<>> THEN "" ELSE v[1]

sheet_names(rows) == {rows[k].name : k \in DOMAIN rows} \ {""}

\* the last row of a name wins, as in a dict filled in sheet order
last_row(rows, nm) ==
    rows[CHOOSE k \in DOMAIN rows :
           /\ rows[k].name = nm
           /\ \A j \in DOMAIN rows : rows[j].name = nm => j <= k]

cardiac_map(rows) == [nm \in sheet_names(rows) |-> last_row(rows, nm).cardiac]

wte_map(rows) == [nm \in sheet_names(rows) |-> last_row(rows, nm).wte]

\* leave_map of export_to_excel: every name with a counted Leave row
export_leave(rows) ==
    [nm \in {rows[k].name : k \in {j \in DOMAIN rows : leave_row_counts(rows[j])}} |->
        leave_days(rows, nm)]

\* mutant: Sunday is read from WeekendMixed, like Saturday
a_block_sun_mixed(dow) ==
    IF dow \in {0, 2} THEN "AB1"
    ELSE IF dow \in {1, 3} THEN "AB2"
    ELSE IF dow = 4 THEN "WeekendAB"
    ELSE "WeekendMixed"

a_block(dow) ==
    IF dow \in {0, 2} THEN "AB1"
    ELSE IF dow \in {1, 3} THEN "AB2"
    ELSE IF dow = 4 THEN "WeekendAB"
    ELSE IF dow = 5 THEN "WeekendMixed"
    ELSE "WeekendAB"

role_A(asg, dow) == Get(asg, a_block(dow), "")

role_D(asg, dow) ==
    IF dow <= 3 THEN Get(asg, "DMonThu", "")
    ELSE IF dow = 4 THEN Get(asg, "WeekendMixed", "")
    ELSE ""

\* mutant: the first day is not seeded from the configuration
role_B_unseeded(d, start, prevStart, prev_A) == prev_A

\* B of a day: the configured name on the first day, the previous A afterwards
role_B(d, start, prevStart, prev_A) == IF d = start THEN prevStart ELSE prev_A

Flag(cond, name) == IF cond THEN <<name>> ELSE <<>>

\* mutant: MISSING_D is tested on Monday to Thursday only
day_flags_d_mon_thu(d, A, B, D, cardiac, leave_map, bh_set) ==
    LET dow == weekday(d)
    IN Flag(A = "", "MISSING_A")
       \o Flag(B = "", "MISSING_B")
       \o Flag(dow <= 3 /\ D = "", "MISSING_D")
       \o Flag(dow >= 5 /\ D # "", "D_SHOULD_BE_BLANK_WEEKEND")
       \o Flag(A # "" /\ d \in Get(leave_map, A, {}), "A_ON_LEAVE")
       \o Flag(B # "" /\ d \in Get(leave_map, B, {}), "B_ON_LEAVE")
       \o Flag(D # "" /\ d \in Get(leave_map, D, {}), "D_ON_LEAVE")
       \o Flag(dow <= 4 /\ Bit(Get(cardiac, A, FALSE)) + Bit(Get(cardiac, D, FALSE)) # 1,
               "CARDIAC_XOR_BREACH")
       \o Flag(d \in bh_set, "BANK_HOLIDAY")

day_flags(d, A, B, D, cardiac, leave_map, bh_set) ==
    LET dow == weekday(d)
    IN Flag(A = "", "MISSING_A")
       \o Flag(B = "", "MISSING_B")
       \o Flag(dow <= 4 /\ D = "", "MISSING_D")
       \o Flag(dow >= 5 /\ D # "", "D_SHOULD_BE_BLANK_WEEKEND")
       \o Flag(A # "" /\ d \in Get(leave_map, A, {}), "A_ON_LEAVE")
       \o Flag(B # "" /\ d \in Get(leave_map, B, {}), "B_ON_LEAVE")
       \o Flag(D # "" /\ d \in Get(leave_map, D, {}), "D_ON_LEAVE")
       \o Flag(dow <= 4 /\ Bit(Get(cardiac, A, FALSE)) + Bit(Get(cardiac, D, FALSE)) # 1,
               "CARDIAC_XOR_BREACH")
       \o Flag(d \in bh_set, "BANK_HOLIDAY")

RECURSIVE rota_rows(_, _, _, _, _, _, _)
\* the Rota rows of days[k..], prev_A being the A of the row before
rota_rows(days, k, prev_A, S, wk_map, cardiac, leave_map) ==
    IF k > Len(days) THEN <<>>
    ELSE LET d == days[k]
             dow == weekday(d)
             asg == Get(wk_map, week_monday(d), EmptyDict)
             A == role_A(asg, dow)
             B == role_B(d, S.start, S.prevStart, prev_A)
             D == role_D(asg, dow)
         IN <<[date |-> d, A |-> A, B |-> B, D |-> D,
               flags |-> day_flags(d, A, B, D, cardiac, leave_map, S.bh_set)]>>
            \o rota_rows(days, k + 1, A, S, wk_map, cardiac, leave_map)

expand_rota(W, s) ==
    LET start == excel_date(W.Config["CycleStartDate"])
        end == excel_date(W.Config["CycleEndDate"])
        S == [start |-> start, prevStart |-> prev_A_for_start(W.Config),
              bh_set |-> W.BankHolidays]
    IN rota_rows(daterange(start, end), 1, "", S, s.assignments,
                 cardiac_map(W.Consultants), export_leave(W.Leave))

week_assignment_rows(s) ==
    [k \in DOMAIN s.weeks |->
        [week |-> s.weeks[k],
         AB1 |-> Get(s.assignments[s.weeks[k]], "AB1", ""),
         AB2 |-> Get(s.assignments[s.weeks[k]], "AB2", ""),
         DMonThu |-> Get(s.assignments[s.weeks[k]], "DMonThu", ""),
         WeekendAB |-> Get(s.assignments[s.weeks[k]], "WeekendAB", ""),
         WeekendMixed |-> Get(s.assignments[s.weeks[k]], "WeekendMixed", ""),
         status |-> s.status,
         objective |-> s.objective]]

(* ----------------------------- dashboard ------------------------------ *)

RECURSIVE Gcd(_, _)
Gcd(a, b) == IF b = 0 THEN a ELSE Gcd(b, a % b)

\* the value n / d of a float division, kept as a fraction in lowest terms
Frac(n, d) ==
    LET g == Gcd(Abs(n), d)
    IN [num |-> n \div g, den |-> d \div g]

is_bh(row) == "BANK_HOLIDAY" \in Range(row.flags)

\* counts[A]["A"] += 1
count_A(rota, nm) == Cardinality({k \in DOMAIN rota : rota[k].A = nm})

\* counts[B]["B"] += 1
count_B(rota, nm) == Cardinality({k \in DOMAIN rota : rota[k].B = nm})

\* mutant: Friday is left out
count_D_mon_thu(rota, nm) ==
    Cardinality({k \in DOMAIN rota : rota[k].D = nm /\ weekday(rota[k].date) <= 3})

\* counts[Dv]["D"] += 1, on Monday to Friday only
count_D(rota, nm) ==
    Cardinality({k \in DOMAIN rota : rota[k].D = nm /\ weekday(rota[k].date) <= 4})

\* counts[..]["BH"] += 1 for each role held on a row flagged BANK_HOLIDAY
count_BH(rota, nm) ==
    LET bh == [k \in {j \in DOMAIN rota : is_bh(rota[j])} |-> rota[k]]
    IN Cardinality({k \in DOMAIN bh : bh[k].A = nm})
         + Cardinality({k \in DOMAIN bh : bh[k].B = nm})
         + Cardinality({k \in DOMAIN bh : bh[k].D = nm /\ weekday(bh[k].date) <= 4})

\* the weeks in which nm holds WeekendAB or WeekendMixed
weekend_weeks(s, nm) ==
    {wk \in Range(s.weeks) :
       \E b \in {"WeekendAB", "WeekendMixed"} : Get(s.assignments[wk], b, "") = nm}

\* len(weekend_by_cons[nm])
count_wknd(s, nm) ==
    SumTo([k \in DOMAIN s.weeks |->
             Bit(Get(s.assignments[s.weeks[k]], "WeekendAB", "") = nm)
               + Bit(Get(s.assignments[s.weeks[k]], "WeekendMixed", "") = nm)],
          Len(s.weeks))

\* pairs of weekend weeks of nm that are 7 days apart
count_consec_wknd(s, nm) ==
    Cardinality({wk \in weekend_weeks(s, nm) : wk + 7 \in weekend_weeks(s, nm)})

counts_of(rota, s, nm) ==
    [A |-> count_A(rota, nm),
     B |-> count_B(rota, nm),
     D |-> count_D(rota, nm),
     BH |-> count_BH(rota, nm),
     wknd |-> count_wknd(s, nm),
     consec_wknd |-> count_consec_wknd(s, nm)]

\* sum(wte.values()) if wte else 1.0, in tenths
export_sum_wte(wte) ==
    IF DOMAIN wte = {} THEN 10 ELSE SumOver(wte, DOMAIN wte)

\* exp = total * (wte / sum_wte) divides by zero when every WTE is 0
dashboard_fails(W) ==
    /\ sheet_names(W.Consultants) # {}
    /\ export_sum_wte(wte_map(W.Consultants)) = 0

dashboard(W, s, rota) ==
    LET names == sheet_names(W.Consultants)
        wte == wte_map(W.Consultants)
        counts == [nm \in names |-> counts_of(rota, s, nm)]
        tot == [nm \in names |-> counts[nm].A + counts[nm].B + counts[nm].D]
        total_all == SumOver(tot, names)
        total_bh == SumOver([nm \in names |-> counts[nm].BH], names)
        den == export_sum_wte(wte)
    IN [nm \in names |->
          [wte |-> wte[nm],
           A |-> counts[nm].A, B |-> counts[nm].B, D |-> counts[nm].D,
           tot |-> tot[nm],
           exp |-> Frac(total_all * wte[nm], den),
           delta |-> Frac(tot[nm] * den - total_all * wte[nm], den),
           BH |-> counts[nm].BH,
           bh_exp |-> Frac(total_bh * wte[nm], den),
           bh_delta |-> Frac(counts[nm].BH * den - total_bh * wte[nm], den),
           wknd |-> counts[nm].wknd,
           consec_wknd |-> counts[nm].consec_wknd]]

(* -------------------------- input workbooks --------------------------- *)

Cons(nm, c, w, ea, ed, act) ==
    [name |-> nm, cardiac |-> c, wte |-> w, eligible_a |-> ea, eligible_d |-> ed,
     active |-> act]

Full(nm, c, w) == Cons(nm, c, w, TRUE, TRUE, TRUE)

LeaveRow(nm, s, e, appr) == [name |-> nm, start |-> s, end |-> e, approved |-> appr]

\* five consultants, two cardiac, of mixed eligibility and WTE
Roster5 ==
    <<Cons("P1", TRUE, 10, FALSE, TRUE, TRUE), Full("P2", TRUE, 10), Full("P3", FALSE, 10),
      Full("P4", FALSE, 8), Cons("P5", FALSE, 6, TRUE, FALSE, TRUE)>>

\* five consultants eligible for everything
RosterOpen5 ==
    <<Full("P1", TRUE, 10), Full("P2", TRUE, 10), Full("P3", FALSE, 10),
      Full("P4", FALSE, 8), Full("P5", FALSE, 6)>>

\* scenario S1: two cardiac, two non-cardiac, all eligible, WTE 1.0
RosterS1 ==
    <<Full("P1", TRUE, 10), Full("P2", TRUE, 10), Full("P3", FALSE, 10),
      Full("P4", FALSE, 10)>>

\* Roster5 and a sixth row of any cardiac flag, eligibility and activity
Rosters6 ==
    {Roster5 \o <<Cons("P6", c, 10, ea, ed, act)>> :
        c \in BOOLEAN, ea \in BOOLEAN, ed \in BOOLEAN, act \in BOOLEAN}

\* ten consultants, enough for two weeks under the week-gap bar
Roster10 ==
    <<Cons("P1", TRUE, 10, FALSE, TRUE, TRUE), Cons("P2", FALSE, 10, FALSE, TRUE, TRUE),
      Full("P3", TRUE, 10), Full("P4", FALSE, 10),
      Cons("P5", TRUE, 10, TRUE, FALSE, TRUE), Cons("P6", TRUE, 10, TRUE, FALSE, TRUE),
      Cons("P7", TRUE, 5, TRUE, FALSE, TRUE), Cons("P8", FALSE, 10, TRUE, FALSE, TRUE),
      Cons("P9", FALSE, 10, TRUE, FALSE, TRUE), Cons("Q1", FALSE, 5, TRUE, FALSE, TRUE)>>

\* a blank row between records, nobody active, every WTE cell empty
RosterBlankRow == <<Roster5[1], Cons("", FALSE, 0, FALSE, FALSE, FALSE)>> \o Tail(Roster5)

RosterNoneActive == <<Cons("P1", TRUE, 10, TRUE, TRUE, FALSE)>>

RosterZeroWte == [k \in DOMAIN Roster5 |-> [Roster5[k] EXCEPT !.wte = 0]]

Config(start, end, prevA) ==
    LET dates == [l \in {"CycleStartDate", "CycleEndDate"} |->
                    IF l = "CycleStartDate" THEN start ELSE end]
    IN IF prevA = <<>> THEN dates
       ELSE ("A_Consultant_DayBeforeStart" :> prevA[1]) @@ dates

Workbook(start, end, prevA, cons, leave, bh) ==
    [Config |-> Config(start, end, prevA), Consultants |-> cons, Leave |-> leave,
     BankHolidays |-> bh]

Args(noGap, noConsec) ==
    [no_hard_week_gap |-> noGap, no_hard_no_consec_weekends |-> noConsec]

DefaultArgs == Args(FALSE, FALSE)

AllArgs == {Args(g, c) : g \in BOOLEAN, c \in BOOLEAN}

PrevNames == {<<"P1">>, <<"Carryover">>, <<>>}

\* every cycle window with any start weekday, with the two bars on or off
CalendarInputs ==
    {[wb |-> Workbook(s, e, p, Roster5, <<>>, {}), args |-> a] :
        s \in 0..6, e \in 0..MaxEnd, p \in PrevNames,
        a \in {DefaultArgs, Args(TRUE, TRUE)}}

\* one week, every sixth-row variant and the special rosters, bank holidays
RosterInputs ==
    {[wb |-> Workbook(0, 6, <<"P1">>, r, <<>>, bh), args |-> DefaultArgs] :
        r \in Rosters6 \cup {RosterOpen5, RosterBlankRow, RosterNoneActive, RosterZeroWte},
        bh \in {{}, {4, 7}}}

\* approved leave that keeps four of the ten out of one week each
Leave10 ==
    <<LeaveRow("P5", 9, 10, TRUE), LeaveRow("P6", 8, 12, TRUE),
      LeaveRow("P8", 2, 3, TRUE), LeaveRow("P9", 0, 6, TRUE)>>

\* two weeks with ten consultants, with each combination of the two bars
TwoWeekInputs ==
    {[wb |-> Workbook(0, 13, <<"P1">>, Roster10, Leave10, {}), args |-> a] : a \in AllArgs}

LeaveNames == {"P1", "P6", "PX"}

\* the end cell of a Leave row starting on s: empty, the same day, two days on
LeaveEnd(s, k) == IF k = 0 THEN NoDate ELSE s + 2 * (k - 1)

\* Leave rows over one week of six consultants: approved or not, dated or not,
\* reaching the Monday after the cycle, alone or after other rows
LeaveInputs ==
    {[wb |-> Workbook(0, 6, <<"P1">>, Roster5 \o <<Full("P6", TRUE, 10)>>,
                      more \o <<LeaveRow(nm, s, LeaveEnd(s, k), appr)>>, {}),
      args |-> DefaultArgs] :
        nm \in LeaveNames, s \in 0..MaxLeaveStart, k \in 0..2,
        appr \in BOOLEAN,
        more \in {<<>>, <<LeaveRow("", 0, 6, TRUE), LeaveRow("P3", 2, 2, TRUE)>>}}

\* scenario S1: four consultants, four weeks from a Monday, default flags
ScenarioInputs ==
    {[wb |-> Workbook(0, 27, <<"P1">>, RosterS1, <<>>, {}), args |-> DefaultArgs]}

\* a configuration sheet without the CycleEndDate label
MissingLabelInputs ==
    {[wb |-> [Workbook(0, 6, <<"P1">>, Roster5, <<>>, {}) EXCEPT
                !.Config = [l \in {"CycleStartDate"} |-> 0]],
      args |-> DefaultArgs]}

\* the neighbours of scenario S1: its sheet, with and without WTE cells, over
\* cycles of up to ScenarioWeeks weeks from a Monday or a Thursday, with the
\* week-gap bar on
S1FamilyInputs ==
    {[wb |-> Workbook(s, s + 7 * n - 1, <<"P1">>, r, <<>>, {}), args |-> a] :
        s \in {0, 3}, n \in 0..ScenarioWeeks,
        r \in {RosterS1, [k \in DOMAIN RosterS1 |-> [RosterS1[k] EXCEPT !.wte = 0]]},
        a \in {DefaultArgs, Args(FALSE, TRUE)}}
      \cup MissingLabelInputs

\* the A_Consultant_DayBeforeStart label is there but its cell is empty
BlankPrevInputs ==
    {[wb |-> Workbook(s, 6, <<"">>, Roster5, <<>>, {}), args |-> DefaultArgs] :
        s \in 0..1}

Inputs ==
    CalendarInputs \cup RosterInputs \cup TwoWeekInputs \cup LeaveInputs
      \cup ScenarioInputs \cup MissingLabelInputs \cup BlankPrevInputs

(* ------------------------------ program ------------------------------- *)

NoInput ==
    [start |-> NoDate, end |-> NoDate, consultants |-> <<>>, leave |-> EmptyDict,
     bank_holidays |-> {}]

NoSol == [status |-> "", objective |-> <<>>, weeks |-> <<>>, assignments |-> EmptyDict]

NoOut == [WeekAssignments |-> <<>>, Rota |-> <<>>, Dashboard |-> EmptyDict]

\* the solver run touches no front-end state
NoFrontEnd ==
    /\ app = "solve_rota"
    /\ leave_ws = <<>>
    /\ requests = <<>>
    /\ uploaded = <<>>
    /\ lock = FALSE
    /\ backed_up = FALSE
    /\ rerun = FALSE
    /\ ui = [op |-> "", start |-> NoDate, end |-> NoDate, result |-> ""]
    /\ sessions = <<>>
    /\ history = <<>>

Init ==
    /\ \E i \in Inputs : wb = i.wb /\ args = i.args
    /\ pc = "read_inputs"
    /\ inp = NoInput
    /\ sol = NoSol
    /\ out = NoOut
    /\ NoFrontEnd

\* read_inputs raises ValueError: a label is missing or nobody is active
read_inputs_fails(W) ==
    \/ ~cfg_has(W.Config, "CycleStartDate")
    \/ ~cfg_has(W.Config, "CycleEndDate")
    \/ read_consultants(W.Consultants) = <<>>

read_inputs(W) ==
    LET consultants == read_consultants(W.Consultants)
    IN [start |-> excel_date(W.Config["CycleStartDate"]),
        end |-> excel_date(W.Config["CycleEndDate"]),
        consultants |-> consultants,
        leave |-> read_leave(W.Leave, consultants),
        bank_holidays |-> W.BankHolidays]

ReadInputs ==
    /\ pc = "read_inputs"
    /\ \/ /\ read_inputs_fails(wb)
          /\ pc' = "input_error"
          /\ inp' = inp
       \/ /\ ~read_inputs_fails(wb)
          /\ pc' = "solve"
          /\ inp' = read_inputs(wb)
    /\ UNCHANGED <<wb, args, sol, out>>
    /\ UNCHANGED leave_vars

\* the keyword arguments main passes to solve
solve_flags(a) ==
    [hard_no_consecutive_weekends |-> ~a.no_hard_no_consec_weekends,
     hard_week_gap |-> ~a.no_hard_week_gap]

\* the CP model solve builds: the assignments satisfying the constraints
\* and the objective value of each
solve_model(I, flags) ==
    LET F == feasible_set(I, flags)
        exp == expected_shares(I)
    IN [F |-> F, obj |-> [a \in F |-> objective_value(I, exp, a)]]

\* solve: CP-SAT returns a best assignment (OPTIMAL), some assignment
\* satisfying the constraints (FEASIBLE), a proof that there is none
\* (INFEASIBLE), or runs out of time with nothing found (UNKNOWN)
Solve ==
    /\ pc = "solve"
    /\ \E c \in {solve_model(inp, solve_flags(args))} :
          \/ \E a \in optimal_set(c.F, c.obj) :
                sol' = solution(inp, "OPTIMAL", a, c.obj[a])
          \/ \E a \in c.F : sol' = solution(inp, "FEASIBLE", a, c.obj[a])
          \/ c.F = {} /\ sol' = no_solution(inp, "INFEASIBLE")
          \/ sol' = no_solution(inp, "UNKNOWN")
    /\ pc' = "export"
    /\ UNCHANGED <<wb, args, inp, out>>
    /\ UNCHANGED leave_vars

\* export_to_excel: the sheets are filled and saved, unless the dashboard
\* division fails before wb.save
Export ==
    /\ pc = "export"
    /\ \/ /\ dashboard_fails(wb)
          /\ pc' = "export_error"
          /\ out' = out
       \/ /\ ~dashboard_fails(wb)
          /\ pc' = "done"
          /\ \E rota \in {expand_rota(wb, sol)} :
                out' = [WeekAssignments |-> week_assignment_rows(sol),
                        Rota |-> rota,
                        Dashboard |-> dashboard(wb, sol, rota)]
    /\ UNCHANGED <<wb, args, inp, sol>>
    /\ UNCHANGED leave_vars

Next == ReadInputs \/ Solve \/ Export

Spec == Init /\ [][Next]_vars

\* the same program run on the scenario S1 family of workbooks
InitS1 ==
    /\ \E i \in S1FamilyInputs : wb = i.wb /\ args = i.args
    /\ pc = "read_inputs"
    /\ inp = NoInput
    /\ sol = NoSol
    /\ out = NoOut
    /\ NoFrontEnd

SpecS1 == InitS1 /\ [][Next]_vars

\* the workbooks on which the objective is compared over the whole feasible
\* set: the one-week rosters, the cycle windows under the default flags, and
\* the two weeks of ten consultants with the consecutive-weekend bar on
ObjectiveInputs ==
    RosterInputs \cup MissingLabelInputs
      \cup {i \in CalendarInputs : i.args = DefaultArgs}
      \cup {i \in TwoWeekInputs : ~i.args.no_hard_no_consec_weekends}

InitObjective ==
    /\ \E i \in ObjectiveInputs : wb = i.wb /\ args = i.args
    /\ pc = "read_inputs"
    /\ inp = NoInput
    /\ sol = NoSol
    /\ out = NoOut
    /\ NoFrontEnd

SpecObjective == InitObjective /\ [][Next]_vars

(* ---------------------------- Leave sheet ----------------------------- *)

\* the rows of the Leave sheet below its header row
Rows == 2..(MaxRow + 1)

\* a row whose cells A to E are None.  given is history kept with the record
\* of a row, not a cell: the row number the record was given when added
EmptyCells ==
    [A |-> "", B |-> NoDate, C |-> NoDate, D |-> "", E |-> <<>>, given |-> 0]

EmptySheet == [r \in Rows |-> EmptyCells]

Cells(nm, s, e, t, appr) ==
    [A |-> nm, B |-> s, C |-> e, D |-> t, E |-> <<appr>>, given |-> 0]

\* ws[f"A{r}"].value = ..., B to E likewise
write_cells(lws, r, nm, s, e, t, appr) ==
    [lws EXCEPT ![r] = [@ EXCEPT !.A = nm, !.B = s, !.C = e, !.D = t, !.E = <<appr>>]]

\* the first row from 2 whose A is empty, past the last row when there is none
next_empty_row(lws) ==
    IF \E r \in Rows : lws[r].A = ""
    THEN CHOOSE r \in Rows : lws[r].A = "" /\ \A q \in Rows : lws[q].A = "" => r <= q
    ELSE MaxRow + 2

\* mutant: the two dates are compared the wrong way round
validate_dates_swapped(s, e) ==
    IF s < e THEN <<"Date to cannot be earlier than Date from.">> ELSE <<>>

\* the error message of a "Date to" before the "Date from", else None
validate_dates(s, e) ==
    IF e < s THEN <<"Date to cannot be earlier than Date from.">> ELSE <<>>

\* the values of the date fields of a form
FormDates == {0, 1}

\* the values of the Approved checkbox of a form
FormApproved == {TRUE}

\* strip, then the canonical spelling of the three known types
normalize_leave_type(t) ==
    CASE t \in {"Annual", "annual", " annual "} -> "Annual"
      [] t \in {"Study", "study"} -> "Study"
      [] t \in {"NOC", "noc", "Noc"} -> "NOC"
      [] OTHER -> t

\* the names of the Consultants rows that have a name and are active
active_names(rows) ==
    {rows[k].name : k \in {j \in DOMAIN rows : rows[j].name # "" /\ rows[j].active}}

\* the last handler, the dates of its form and its outcome
Ui(op, s, e, result) == [op |-> op, start |-> s, end |-> e, result |-> result]

(* ------------------ leave_frontend_streamlit_master ------------------- *)

\* names of read_master: the active consultants of the master workbook
master_names(W) == active_names(W.Consultants)

\* RowID of the rows read_master puts in df: those with a name in A
row_ids(lws) == {r \in Rows : lws[r].A # ""}

\* acquire_lock: write_text creates the lock file, or overwrites it; the
\* result is True
acquire_lock(lk) == [locked |-> TRUE, file |-> TRUE]

\* release_lock: the lock file is removed when it exists
release_lock(lk) == FALSE

\* the lock file after a handler that writes: acquired, then released in
\* the finally clause
lock_after(enable_lock, lk) ==
    IF enable_lock THEN release_lock(acquire_lock(lk).file) ELSE lk

\* backup_file: a timestamped copy of the workbook exists afterwards
backup_after(make_backup, b) == IF make_backup THEN TRUE ELSE b

\* add_form: the new record goes to the first row with an empty A
add_row(lws, nm, s, e, t, appr) ==
    LET r == next_empty_row(lws)
    IN [write_cells(lws, r, nm, s, e, normalize_leave_type(t), appr)
          EXCEPT ![r].given = r]

\* edit_form, Save changes: cells A to E of the selected row are written
edit_row(lws, r, nm, s, e, t, appr) ==
    write_cells(lws, r, nm, s, e, normalize_leave_type(t), appr)

\* mutant: the row is removed from the sheet and the rows below move up
delete_row_shift(lws, r) ==
    [q \in Rows |-> IF q < r THEN lws[q]
                    ELSE IF q + 1 \in Rows THEN lws[q + 1] ELSE EmptyCells]

\* edit_form, Delete row: cells A to E of the selected row are set to None
delete_row(lws, r) == [lws EXCEPT ![r] = EmptyCells]

\* the leave types chosen in a form, out of Annual, Study and NOC
FormTypes == {"Annual"}

\* the handler of add_form
MasterAddForm ==
    /\ app = "master"
    /\ \E nm \in master_names(wb), s \in FormDates, e \in FormDates, appr \in FormApproved,
          enable_lock \in BOOLEAN, make_backup \in BOOLEAN :
          IF validate_dates(s, e) # <<>>
          THEN /\ ui' = Ui("add", s, e, "error")
               /\ UNCHANGED <<leave_ws, lock, backed_up>>
          ELSE /\ next_empty_row(leave_ws) \in Rows
               /\ leave_ws' = add_row(leave_ws, nm, s, e, "Annual", appr)
               /\ lock' = lock_after(enable_lock, lock)
               /\ backed_up' = backup_after(make_backup, backed_up)
               /\ ui' = Ui("add", s, e, "ok")
    /\ UNCHANGED <<app, requests, uploaded, rerun>>
    /\ UNCHANGED rota_vars
    /\ UNCHANGED session_vars

\* the handler of edit_form: Save changes or Delete row of a row of df
MasterEditForm ==
    /\ app = "master"
    /\ \E r \in row_ids(leave_ws), nm \in master_names(wb), s \in FormDates,
          e \in FormDates, appr \in FormApproved, save_btn \in BOOLEAN,
          enable_lock \in BOOLEAN, make_backup \in BOOLEAN :
          IF save_btn /\ validate_dates(s, e) # <<>>
          THEN /\ ui' = Ui("save", s, e, "error")
               /\ UNCHANGED <<leave_ws, lock, backed_up>>
          ELSE /\ leave_ws' = IF save_btn
                              THEN edit_row(leave_ws, r, nm, s, e, "Annual", appr)
                              ELSE delete_row(leave_ws, r)
               /\ lock' = lock_after(enable_lock, lock)
               /\ backed_up' = backup_after(make_backup, backed_up)
               /\ ui' = Ui(IF save_btn THEN "save" ELSE "delete", s, e, "ok")
    /\ UNCHANGED <<app, requests, uploaded, rerun>>
    /\ UNCHANGED rota_vars
    /\ UNCHANGED session_vars

(* -------------------- leave_requests_dropbox_app ---------------------- *)

\* the stems of the request files: uuid4 values, here small numbers
RequestIds == 1..MaxRequests

\* the JSON of a request (notes and the two timestamps left out)
Request(nm, s, e, t, appr) ==
    [name |-> nm, start_date |-> s, end_date |-> e, leave_type |-> t, approved |-> appr]

\* names of read_consultants_from_workbook, when the workbook is there
consultant_names(W) == active_names(W.Consultants)

\* the rank of a name in the order of Python strings
name_rank(nm) ==
    CASE nm = "" -> 0 [] nm = "P1" -> 1 [] nm = "P2" -> 2 [] nm = "P3" -> 3
      [] nm = "P4" -> 4 [] nm = "P5" -> 5 [] OTHER -> 6

\* row x comes before row y: by StartDate, then Name, then the order of the
\* file paths (the sort keeps the order of rows with equal keys)
sorts_before(x, y) ==
    \/ x.StartDate < y.StartDate
    \/ x.StartDate = y.StartDate /\ name_rank(x.Name) < name_rank(y.Name)
    \/ x.StartDate = y.StartDate /\ name_rank(x.Name) = name_rank(y.Name)
         /\ x.RequestID < y.RequestID

RECURSIVE sort_values(_)
sort_values(S) ==
    IF S = {} THEN <<>>
    ELSE LET m == CHOOSE x \in S : \A y \in S \ {x} : sorts_before(x, y)
         IN <<m>> \o sort_values(S \ {m})

\* load_requests: one row per request file, sorted by StartDate and Name
load_requests(reqs) ==
    sort_values({[RequestID |-> id, Name |-> reqs[id].name,
                  StartDate |-> reqs[id].start_date, EndDate |-> reqs[id].end_date,
                  LeaveType |-> reqs[id].leave_type, Approved |-> reqs[id].approved] :
                 id \in DOMAIN reqs})

\* upsert_request: the file of the request is written
upsert_request(reqs, id, req) ==
    [i \in (DOMAIN reqs) \cup {id} |-> IF i = id THEN req ELSE reqs[i]]

\* delete_request: the file of the request is removed
delete_request(reqs, id) == [i \in (DOMAIN reqs) \ {id} |-> reqs[i]]

\* the name field of add_form and edit_form: a selectbox over the consultant
\* names, free text when there are none
name_field(W) ==
    IF consultant_names(W) # {} THEN consultant_names(W) ELSE {"", "P1"}

\* the handler of add_form
DropboxAddForm ==
    /\ app = "dropbox"
    /\ \E nm \in name_field(wb), s \in FormDates, e \in FormDates, t \in FormTypes,
          appr \in FormApproved, req_id \in RequestIds \ DOMAIN requests :
          IF validate_dates(s, e) # <<>>
          THEN /\ ui' = Ui("add", s, e, "error")
               /\ requests' = requests
          ELSE IF nm = ""
          THEN /\ ui' = Ui("add", s, e, "name_required")
               /\ requests' = requests
          ELSE /\ requests' = upsert_request(requests, req_id,
                                             Request(nm, s, e, normalize_leave_type(t), appr))
               /\ ui' = Ui("add", s, e, "ok")
    /\ UNCHANGED <<app, leave_ws, uploaded, lock, backed_up, rerun>>
    /\ UNCHANGED rota_vars
    /\ UNCHANGED session_vars

\* the handler of edit_form: Save changes or Delete request of a request
DropboxEditForm ==
    /\ app = "dropbox"
    /\ \E selected \in DOMAIN requests, nm \in name_field(wb), s \in FormDates,
          e \in FormDates, t \in FormTypes, appr \in FormApproved, save \in BOOLEAN :
          IF save
          THEN IF validate_dates(s, e) # <<>>
               THEN /\ ui' = Ui("save", s, e, "error")
                    /\ requests' = requests
               ELSE IF nm = ""
               THEN /\ ui' = Ui("save", s, e, "name_required")
                    /\ requests' = requests
               ELSE /\ requests' = upsert_request(requests, selected,
                                       Request(nm, s, e, normalize_leave_type(t), appr))
                    /\ ui' = Ui("save", s, e, "ok")
          ELSE /\ requests' = delete_request(requests, selected)
               /\ ui' = Ui("delete", s, e, "ok")
    /\ UNCHANGED <<app, leave_ws, uploaded, lock, backed_up, rerun>>
    /\ UNCHANGED rota_vars
    /\ UNCHANGED session_vars

\* "Replace Leave sheet rows": rows 2, 3, ... are cleared up to the first
\* row whose A is empty, where the loop breaks
clear_leading_rows(lws) ==
    [r \in Rows |-> IF \A q \in 2..r : lws[q].A # "" THEN EmptyCells ELSE lws[r]]

\* the rows of df2 are written to rows 2, 3, ... of the sheet
write_requests(lws, df) ==
    [r \in Rows |->
        IF r - 1 <= Len(df)
        THEN [lws[r] EXCEPT !.A = df[r - 1].Name, !.B = df[r - 1].StartDate,
                            !.C = df[r - 1].EndDate,
                            !.D = normalize_leave_type(df[r - 1].LeaveType),
                            !.E = <<df[r - 1].Approved>>]
        ELSE lws[r]]

\* the sheet "Compile into workbook now" saves; nothing is saved when there
\* is no request (st.stop() before wb.save)
compile(lws, reqs, replace_leave_sheet) ==
    LET cleared == IF replace_leave_sheet THEN clear_leading_rows(lws) ELSE lws
        df2 == load_requests(reqs)
    IN IF df2 = <<>> THEN lws ELSE write_requests(cleared, df2)

\* the handler of the compile button
DropboxCompile ==
    /\ app = "dropbox"
    /\ \E create_backup \in BOOLEAN, replace_leave_sheet \in BOOLEAN :
          /\ backed_up' = backup_after(create_backup, backed_up)
          /\ leave_ws' = compile(leave_ws, requests, replace_leave_sheet)
          /\ ui' = Ui(IF replace_leave_sheet THEN "compile_replace" ELSE "compile",
                      NoDate, NoDate,
                      IF DOMAIN requests = {} THEN "no_requests" ELSE "ok")
    /\ UNCHANGED <<app, requests, uploaded, lock, rerun>>
    /\ UNCHANGED rota_vars
    /\ UNCHANGED session_vars

(* --------------------- leave_frontend_streamlit ----------------------- *)

\* names: the active consultants of the uploaded workbook
uploaded_names(W) == active_names(W.Consultants)

find_next_empty_row(ws) == next_empty_row(ws)

\* the handler of leave_form.  Every run of the script first writes the
\* uploaded workbook to the temporary file, which the handler then extends
\* and saves before st.rerun()
UploadLeaveForm ==
    /\ app = "upload"
    /\ ~rerun
    /\ \E nm \in uploaded_names(wb), s \in FormDates, e \in FormDates, t \in FormTypes,
          appr \in FormApproved :
          IF e < s
          THEN /\ leave_ws' = uploaded
               /\ rerun' = FALSE
               /\ ui' = Ui("add", s, e, "error")
          ELSE /\ find_next_empty_row(uploaded) \in Rows
               /\ leave_ws' = write_cells(uploaded, find_next_empty_row(uploaded),
                                          nm, s, e, t, appr)
               /\ rerun' = TRUE
               /\ ui' = Ui("add", s, e, "ok")
    /\ UNCHANGED <<app, requests, uploaded, lock, backed_up>>
    /\ UNCHANGED rota_vars
    /\ UNCHANGED session_vars

\* the run st.rerun() starts: the uploaded workbook is written to the
\* temporary file again
UploadRerun ==
    /\ app = "upload"
    /\ rerun
    /\ leave_ws' = uploaded
    /\ rerun' = FALSE
    /\ ui' = Ui("rerun", NoDate, NoDate, "ok")
    /\ UNCHANGED <<app, requests, uploaded, lock, backed_up>>
    /\ UNCHANGED rota_vars
    /\ UNCHANGED session_vars

(* ------------------------ front-end programs -------------------------- *)

\* a workbook whose Consultants sheet has two active rows and an inactive one
RosterAdmin ==
    <<Full("P1", TRUE, 10), Full("P2", FALSE, 10), Cons("P3", FALSE, 10, TRUE, TRUE, FALSE)>>

AdminWorkbook == Workbook(0, 6, <<"P1">>, RosterAdmin, <<>>, {})

\* the workbook of the requests app: one active row and an inactive one
RequestsWorkbook ==
    Workbook(0, 6, <<"P1">>,
             <<Full("P1", TRUE, 10), Cons("P2", FALSE, 10, TRUE, TRUE, FALSE)>>, <<>>, {})

\* a workbook without active consultants: the name fields are free text
FreeTextWorkbook == Workbook(0, 6, <<"P1">>, RosterNoneActive, <<>>, {})

\* Leave sheets as a front end can find them: empty, one record in row 2,
\* one record in the last row below cleared rows, full
PriorSheets ==
    {EmptySheet,
     [EmptySheet EXCEPT ![2] = Cells("P2", 1, 1, "Annual", TRUE)],
     [EmptySheet EXCEPT ![MaxRow + 1] = Cells("P2", 0, 0, "Study", FALSE)],
     [r \in Rows |-> Cells("P1", 0, 0, "NOC", TRUE)]}

\* every record of the sheet was given the row it is in
given_rows(lws) ==
    [r \in Rows |-> IF lws[r].A # "" THEN [lws[r] EXCEPT !.given = r] ELSE lws[r]]

\* request folders: empty, or with a file written by hand
PriorRequests ==
    {<<>>, [id \in {1} |-> Request("P2", 1, 1, "annual", TRUE)]}

NoRota ==
    /\ args = DefaultArgs
    /\ pc = "front_end"
    /\ inp = NoInput
    /\ sol = NoSol
    /\ out = NoOut

NoUi == Ui("", NoDate, NoDate, "")

InitLeave ==
    /\ NoRota
    /\ ui = NoUi
    /\ sessions = <<>>
    /\ history = <<>>
    /\ rerun = FALSE
    /\ \/ /\ app = "master"
          /\ wb = AdminWorkbook
          /\ leave_ws \in {given_rows(ws) : ws \in PriorSheets}
          /\ requests = <<>>
          /\ uploaded = <<>>
          /\ lock \in BOOLEAN
          /\ backed_up = FALSE
       \/ /\ app = "dropbox"
          /\ \/ /\ wb = RequestsWorkbook
                /\ leave_ws \in PriorSheets
                /\ requests \in PriorRequests
             \/ /\ wb = FreeTextWorkbook
                /\ leave_ws = EmptySheet
                /\ requests = <<>>
          /\ uploaded = <<>>
          /\ lock = FALSE
          /\ backed_up = FALSE
       \/ /\ app = "upload"
          /\ wb = AdminWorkbook
          /\ uploaded \in PriorSheets
          /\ leave_ws = uploaded
          /\ requests = <<>>
          /\ lock = FALSE
          /\ backed_up = FALSE

NextLeave ==
    \/ MasterAddForm
    \/ MasterEditForm
    \/ DropboxAddForm
    \/ DropboxEditForm
    \/ DropboxCompile
    \/ UploadLeaveForm
    \/ UploadRerun

SpecLeave == InitLeave /\ [][NextLeave]_vars

(* ------------- two sessions of the admin app, step by step ------------- *)

\* the browser sessions that have the admin app open on one master workbook
Sessions == {1, 2}

NoForm ==
    [op |-> "", r |-> 0, nm |-> "", s |-> NoDate, e |-> NoDate,
     enable_lock |-> FALSE, seen |-> 0, new |-> 0]

\* a submitted form: the button, the selected RowID, the field values, the
\* lock checkbox; seen is the record the session showed for RowID r and new
\* the record an add creates
Form(op, r, nm, s, e, enable_lock, seen, new) ==
    [op |-> op, r |-> r, nm |-> nm, s |-> s, e |-> e,
     enable_lock |-> enable_lock, seen |-> seen, new |-> new]

\* a session whose script has run to its end: df is the Leave sheet
\* read_master loaded for the page it shows, df_ids the records on it
Shown(lws, ids) ==
    [pc |-> "idle", df |-> lws, df_ids |-> ids, form |-> NoForm,
     wbm |-> <<>>, wbm_ids |-> <<>>]

\* the "Date from" and "Date to" typed into a form: one day, or an end
\* before the start
SessionDates == {<<0, 0>>, <<1, 0>>}

\* the records of a sheet nobody has written yet: one per row with a name
prior_ids(lws) == [r \in Rows |-> IF lws[r].A # "" THEN r ELSE 0]

\* the record an add creates: a number no earlier record has
new_id(added) == MaxRow + 1 + added

\* a script run without a button pressed: read_master, then the page
SessionRun(p) ==
    /\ sessions[p].pc = "idle"
    /\ sessions' = [sessions EXCEPT ![p] = Shown(leave_ws, history.holds)]
    /\ UNCHANGED <<leave_ws, lock, backed_up, history>>

\* "Add to master workbook" is pressed: the script runs again, read_master
\* loads the workbook, and the handler of add_form starts
SessionSubmitAdd(p) ==
    /\ sessions[p].pc = "idle"
    /\ history.submitted < MaxSubmits
    /\ \E nm \in master_names(wb), d \in SessionDates, enable_lock \in BOOLEAN :
          IF validate_dates(d[1], d[2]) # <<>>
          THEN /\ sessions' = [sessions EXCEPT ![p] = Shown(leave_ws, history.holds)]
               /\ history' = [history EXCEPT !.submitted = @ + 1]
          ELSE /\ sessions' = [sessions EXCEPT
                    ![p].pc = "handler",
                    ![p].form = Form("add", 0, nm, d[1], d[2], enable_lock, 0,
                                     new_id(history.added + 1))]
               /\ history' = [history EXCEPT !.submitted = @ + 1, !.added = @ + 1]
    /\ UNCHANGED <<leave_ws, lock, backed_up>>

\* "Save changes" or "Delete row" is pressed for the RowID selected on the
\* page: the script runs again, read_master loads the workbook, the
\* selection stands when the RowID is still among the rows with a name, and
\* the handler of edit_form starts
SessionSubmitEdit(p) ==
    /\ sessions[p].pc = "idle"
    /\ history.submitted < MaxSubmits
    /\ history' = [history EXCEPT !.submitted = @ + 1]
    /\ \E r \in row_ids(sessions[p].df), save_btn \in BOOLEAN,
          nm \in master_names(wb), d \in SessionDates, enable_lock \in BOOLEAN :
          IF r \notin row_ids(leave_ws)
          THEN sessions' = [sessions EXCEPT ![p] = Shown(leave_ws, history.holds)]
          ELSE IF save_btn /\ validate_dates(d[1], d[2]) # <<>>
          THEN sessions' = [sessions EXCEPT ![p] = Shown(leave_ws, history.holds)]
          ELSE sessions' = [sessions EXCEPT
                  ![p].pc = "handler",
                  ![p].form = Form(IF save_btn THEN "save" ELSE "delete", r, nm,
                                   d[1], d[2], enable_lock, sessions[p].df_ids[r], 0)]
    /\ UNCHANGED <<leave_ws, lock, backed_up>>

\* the handler up to load_workbook: acquire_lock when the lock checkbox is
\* ticked (st.stop() when it returns False), then backup_file (the backup
\* checkbox is left ticked, as it is when the page opens)
SessionAcquire(p) ==
    /\ sessions[p].pc = "handler"
    /\ IF ~sessions[p].form.enable_lock
       THEN /\ UNCHANGED <<lock, history>>
            /\ sessions' = [sessions EXCEPT ![p].pc = "locked"]
       ELSE /\ lock' = acquire_lock(lock).file
            /\ history' = [history EXCEPT !.lock_by = p]
            /\ sessions' = [sessions EXCEPT
                  ![p].pc = IF acquire_lock(lock).locked THEN "locked" ELSE "saved"]
    /\ backed_up' = backup_after(TRUE, backed_up)
    /\ UNCHANGED leave_ws

\* wb = load_workbook(master_path): the handler's own copy of the workbook
SessionOpen(p) ==
    /\ sessions[p].pc = "locked"
    /\ sessions' = [sessions EXCEPT
          ![p].pc = "opened", ![p].wbm = leave_ws, ![p].wbm_ids = history.holds]
    /\ UNCHANGED <<leave_ws, lock, backed_up, history>>

\* the handler's copy after its write: the new record in next_empty_row, or
\* cells A to E of row r written or cleared.  A copy without an empty row
\* among the rows of the model is saved as it is.
written(wbm, f) ==
    IF f.op = "add"
    THEN IF next_empty_row(wbm) \in Rows
         THEN add_row(wbm, f.nm, f.s, f.e, "Annual", TRUE) ELSE wbm
    ELSE IF f.op = "save" THEN edit_row(wbm, f.r, f.nm, f.s, f.e, "Annual", TRUE)
    ELSE delete_row(wbm, f.r)

\* the records on the rows of the handler's copy after its write
written_ids(wbm, ids, f) ==
    IF f.op = "add"
    THEN IF next_empty_row(wbm) \in Rows
         THEN [ids EXCEPT ![next_empty_row(wbm)] = f.new] ELSE ids
    ELSE IF f.op = "save" THEN [ids EXCEPT ![f.r] = IF @ = 0 THEN f.seen ELSE @]
    ELSE [ids EXCEPT ![f.r] = 0]

\* the cells are written in the copy and wb.save(master_path) replaces the
\* file with the copy
SessionSave(p) ==
    /\ sessions[p].pc = "opened"
    /\ leave_ws' = written(sessions[p].wbm, sessions[p].form)
    /\ history' = [history EXCEPT
          !.holds = written_ids(sessions[p].wbm, sessions[p].wbm_ids, sessions[p].form),
          !.freed = IF sessions[p].form.op = "delete"
                    THEN @ \cup {sessions[p].form.r} ELSE @]
    /\ sessions' = [sessions EXCEPT ![p].pc = "saved"]
    /\ UNCHANGED <<lock, backed_up>>

\* the finally clause: release_lock when the lock checkbox is ticked; then
\* st.rerun() runs the script again
SessionRelease(p) ==
    /\ sessions[p].pc = "saved"
    /\ IF sessions[p].form.enable_lock
       THEN /\ lock' = release_lock(lock)
            /\ history' = [history EXCEPT !.lock_by = 0]
       ELSE UNCHANGED <<lock, history>>
    /\ sessions' = [sessions EXCEPT ![p] = Shown(leave_ws, history.holds)]
    /\ UNCHANGED <<leave_ws, backed_up>>

\* the Leave sheets the two sessions find: those with a record in row 2
SessionSheets == {ws \in PriorSheets : ws[2].A # ""}

InitSessions ==
    /\ NoRota
    /\ ui = NoUi
    /\ rerun = FALSE
    /\ app = "master"
    /\ wb = RequestsWorkbook
    /\ leave_ws \in {given_rows(ws) : ws \in SessionSheets}
    /\ requests = <<>>
    /\ uploaded = <<>>
    /\ lock = FALSE
    /\ backed_up = FALSE
    /\ history = [lock_by |-> 0, holds |-> prior_ids(leave_ws), freed |-> {}, added |-> 0,
                  submitted |-> 0]
    /\ sessions = [p \in Sessions |-> Shown(leave_ws, prior_ids(leave_ws))]

NextSessions ==
    /\ \E p \in Sessions :
          \/ SessionRun(p)
          \/ SessionSubmitAdd(p)
          \/ SessionSubmitEdit(p)
          \/ SessionAcquire(p)
          \/ SessionOpen(p)
          \/ SessionSave(p)
          \/ SessionRelease(p)
    /\ UNCHANGED <<app, requests, uploaded, rerun, ui>>
    /\ UNCHANGED rota_vars

SpecSessions == InitSessions /\ [][NextSessions]_vars

(* ------------------------------ claims -------------------------------- *)

Solved == pc \in {"export", "done", "export_error"}

Feasible == Solved /\ sol.status \in {"OPTIMAL", "FEASIBLE"}

Exported == pc = "done"

CycleStart == wb.Config["CycleStartDate"]

CycleEnd == wb.Config["CycleEndDate"]

\* the Mondays of the cycle
Anchors == {d \in CycleStart..CycleEnd : d % 7 = 0}

AllKinds == {"AB1", "AB2", "DMonThu", "WeekendAB", "WeekendMixed"}

SheetRows == {wb.Consultants[k] : k \in DOMAIN wb.Consultants}

ActiveNames == {r.name : r \in {q \in SheetRows : q.name # "" /\ q.active}}

Assignee(wk, k) == sol.assignments[wk][k]

\* the days block k of the week of Monday wk occupies
SpecBlockDays(wk, k) ==
    CASE k = "AB1" -> wk..(wk + 3)
      [] k = "AB2" -> (wk + 1)..(wk + 4)
      [] k = "DMonThu" -> wk..(wk + 3)
      [] k = "WeekendAB" -> (wk + 4)..(wk + 7)
      [] k = "WeekendMixed" -> (wk + 4)..(wk + 6)

\* C1: on OPTIMAL or FEASIBLE the assignments map has exactly the week
\* anchors as keys, gives every one of the five block kinds of every anchor
\* one consultant, and that consultant is an active row of the sheet.
C1_Coverage ==
    Feasible =>
        /\ DOMAIN sol.assignments = Anchors
        /\ \A wk \in Anchors :
             /\ DOMAIN sol.assignments[wk] = AllKinds
             /\ \A k \in AllKinds : Assignee(wk, k) \in ActiveNames

\* a feasible solve of a week over a sheet that also has an inactive row
C1_Witness ==
    /\ Feasible
    /\ Anchors # {}
    /\ \E r \in SheetRows : r.name # "" /\ ~r.active

LeaveSheet == {wb.Leave[k] : k \in DOMAIN wb.Leave}

HasDates(r) == r.start # NoDate /\ r.end # NoDate

\* nm has an approved Leave row covering day d
OnApprovedLeave(nm, d) ==
    \E r \in LeaveSheet :
        r.name = nm /\ r.approved /\ HasDates(r) /\ r.start <= d /\ d <= r.end

OnUnapprovedLeave(nm, d) ==
    \E r \in LeaveSheet :
        r.name = nm /\ ~r.approved /\ HasDates(r) /\ r.start <= d /\ d <= r.end

\* every day some dated Leave row covers
LeaveSpan == UNION {r.start..r.end : r \in {q \in LeaveSheet : HasDates(q)}}

\* C2: the leave set the solver is given holds the days of the approved
\* intervals and no others, and on OPTIMAL or FEASIBLE no day of an assigned
\* block, inside the cycle or after its end, is in the assignee's leave set.
C2_LeaveRespected ==
    /\ pc \in {"solve", "export", "done", "export_error"} =>
          \A nm \in DOMAIN inp.leave :
              inp.leave[nm] = {d \in LeaveSpan : OnApprovedLeave(nm, d)}
    /\ Feasible =>
          \A wk \in Anchors : \A k \in AllKinds :
              \A d \in SpecBlockDays(wk, k) : ~OnApprovedLeave(Assignee(wk, k), d)

\* one assignee is kept off other blocks by approved leave while another
\* holds a block across days of an unapproved interval
C2_Witness ==
    /\ Feasible
    /\ \E wk \in Anchors : \E k \in AllKinds :
          \E d \in wk..(wk + 7) : OnApprovedLeave(Assignee(wk, k), d)
    /\ \E wk \in Anchors : \E k \in AllKinds :
          \E d \in SpecBlockDays(wk, k) : OnUnapprovedLeave(Assignee(wk, k), d)

RotaRows == {out.Rota[k] : k \in DOMAIN out.Rota}

\* the cardiac flag of the sheet row of a name, FALSE for any other name
IsCardiac(nm) == \E r \in SheetRows : r.name = nm /\ r.name # "" /\ r.cardiac

OneCardiac(row) == IsCardiac(row.A) # IsCardiac(row.D)

Breach(row) == "CARDIAC_XOR_BREACH" \in Range(row.flags)

\* the first Monday on or after the cycle start
FirstAnchor == CHOOSE m \in CycleStart..(CycleStart + 6) : m % 7 = 0

\* C3 as stated: on every Monday-to-Friday row of a feasible rota exactly one
\* of A and D is cardiac and the row carries no CARDIAC_XOR_BREACH.
C3_Original ==
    (Exported /\ Feasible) =>
        \A row \in RotaRows :
            row.date % 7 <= 4 => (OneCardiac(row) /\ ~Breach(row))

\* C3 amended: on every Monday-to-Friday row from the first week anchor on
\* exactly one of A and D is cardiac and there is no CARDIAC_XOR_BREACH; the
\* Monday-to-Friday rows before the first anchor have neither A nor D and
\* carry CARDIAC_XOR_BREACH.
C3_CardiacXorFromFirstAnchor ==
    (Exported /\ Feasible) =>
        \A row \in RotaRows :
            row.date % 7 <= 4 =>
                IF row.date >= FirstAnchor
                THEN OneCardiac(row) /\ ~Breach(row)
                ELSE row.A = "" /\ row.D = "" /\ Breach(row)

\* a feasible rota of a cycle starting on a Wednesday that reaches a Friday
\* of an anchored week
C3_Witness ==
    /\ Exported /\ Feasible
    /\ CycleStart % 7 = 2
    /\ \E row \in RotaRows : row.date % 7 = 4 /\ row.date >= FirstAnchor

\* C4: on OPTIMAL or FEASIBLE nobody is the assignee of two block kinds of
\* the same week.
C4_OneBlockPerWeek ==
    Feasible =>
        \A wk \in Anchors : \A k1 \in AllKinds : \A k2 \in AllKinds :
            Assignee(wk, k1) = Assignee(wk, k2) => k1 = k2

\* a feasible week with six active consultants to choose from
C4_Witness ==
    /\ Feasible
    /\ Anchors # {}
    /\ Cardinality(ActiveNames) > 5

RowOf(nm) == CHOOSE r \in SheetRows : r.name = nm

\* C5: on OPTIMAL or FEASIBLE every AB1, AB2, WeekendAB and WeekendMixed
\* assignee has eligible_a, every DMonThu and WeekendMixed assignee has
\* eligible_d, so a WeekendMixed assignee has both.
C5_Eligibility ==
    Feasible =>
        \A wk \in Anchors :
            /\ \A k \in {"AB1", "AB2", "WeekendAB", "WeekendMixed"} :
                 RowOf(Assignee(wk, k)).eligible_a
            /\ \A k \in {"DMonThu", "WeekendMixed"} :
                 RowOf(Assignee(wk, k)).eligible_d
            /\ RowOf(Assignee(wk, "WeekendMixed")).eligible_a
            /\ RowOf(Assignee(wk, "WeekendMixed")).eligible_d

\* a feasible week whose sheet has an active consultant without eligible_a
\* and another without eligible_d, the first holding DMonThu
C5_Witness ==
    /\ Feasible
    /\ \E wk \in Anchors : ~RowOf(Assignee(wk, "DMonThu")).eligible_a
    /\ \E r \in SheetRows : r.active /\ r.eligible_a /\ ~r.eligible_d

HoldsWeekend(nm, wk) ==
    Assignee(wk, "WeekendAB") = nm \/ Assignee(wk, "WeekendMixed") = nm

HoldsAny(nm, wk) == \E k \in AllKinds : Assignee(wk, k) = nm

\* somebody holds a weekend block in two adjacent weeks
RepeatedWeekend ==
    \E wk \in Anchors : wk + 7 \in Anchors /\
        \E nm \in ActiveNames : HoldsWeekend(nm, wk) /\ HoldsWeekend(nm, wk + 7)

\* somebody holds a block in two adjacent weeks
RepeatedWeek ==
    \E wk \in Anchors : wk + 7 \in Anchors /\
        \E nm \in ActiveNames : HoldsAny(nm, wk) /\ HoldsAny(nm, wk + 7)

RECURSIVE WeeklyProduct(_, _)
\* every choice, week by week, of an assignment that is valid within its week
WeeklyProduct(weeks, k) ==
    IF k = 0 THEN {<<>>}
    ELSE {Append(s, f) : s \in WeeklyProduct(weeks, k - 1),
                         f \in week_solutions(inp, weeks[k])}

SharesWeekend(f, g) ==
    {f["WeekendAB"], f["WeekendMixed"]} \cap {g["WeekendAB"], g["WeekendMixed"]} # {}

\* C6: with the consecutive-weekend bar on, no feasible solution has a
\* consultant on weekend blocks in two adjacent weeks; with both bars off
\* the solver admits every week-by-week valid assignment, those that repeat
\* a weekend holder included.
C6_ConsecutiveWeekends ==
    /\ (Feasible /\ ~args.no_hard_no_consec_weekends) => ~RepeatedWeekend
    /\ (pc = "solve" /\ args.no_hard_no_consec_weekends /\ args.no_hard_week_gap) =>
          feasible_set(inp, solve_flags(args))
            = WeeklyProduct(weeks_of(inp.start, inp.end),
                            Len(weeks_of(inp.start, inp.end)))

\* both bars off: a returned solution repeats a weekend holder
C6_Witness ==
    /\ Feasible
    /\ args.no_hard_no_consec_weekends /\ args.no_hard_week_gap
    /\ RepeatedWeekend

\* C7: with the week-gap bar on, no feasible solution has a consultant on
\* blocks in two adjacent weeks; with the bar off the solver admits every
\* week-by-week valid assignment that the consecutive-weekend bar, if on,
\* allows, those that repeat a consultant included.
C7_WeekGap ==
    /\ (Feasible /\ ~args.no_hard_week_gap) => ~RepeatedWeek
    /\ (pc = "solve" /\ args.no_hard_week_gap) =>
          feasible_set(inp, solve_flags(args))
            = {a \in WeeklyProduct(weeks_of(inp.start, inp.end),
                                   Len(weeks_of(inp.start, inp.end))) :
                 ~args.no_hard_no_consec_weekends =>
                     \A k \in 1..(Len(a) - 1) : ~SharesWeekend(a[k], a[k + 1])}

\* the week-gap bar off and the consecutive-weekend bar on: a returned
\* solution has a consultant in two adjacent weeks
C7_Witness ==
    /\ Feasible
    /\ args.no_hard_week_gap /\ ~args.no_hard_no_consec_weekends
    /\ RepeatedWeek

\* the configured pre-cycle-A-name, empty when the label is absent
ConfiguredPrevA ==
    IF "A_Consultant_DayBeforeStart" \in DOMAIN wb.Config
    THEN wb.Config["A_Consultant_DayBeforeStart"] ELSE ""

\* C8: in the exported rota B of the first day is the configured
\* pre-cycle-A-name and B of every later day is A of the day before, empty
\* when that A is empty.
C8_BLag ==
    Exported =>
        \A k \in DOMAIN out.Rota :
            /\ out.Rota[k].date = CycleStart + k - 1
            /\ IF k = 1 THEN out.Rota[k].B = ConfiguredPrevA
               ELSE out.Rota[k].B = out.Rota[k - 1].A

\* a rota with a configured name, a later day after an empty A and a later
\* day after a filled A
C8_Witness ==
    /\ Exported
    /\ ConfiguredPrevA = "Carryover"
    /\ \E k \in DOMAIN out.Rota : k > 1 /\ out.Rota[k - 1].A = ""
    /\ \E k \in DOMAIN out.Rota : k > 1 /\ out.Rota[k - 1].A # ""

DashNames == DOMAIN out.Dashboard

DashTotal ==
    SumOver([nm \in DashNames |->
               out.Dashboard[nm].A + out.Dashboard[nm].B + out.Dashboard[nm].D],
            DashNames)

WeekdayDays == {d \in CycleStart..CycleEnd : d % 7 <= 4}

WeekendDays == {d \in CycleStart..CycleEnd : d % 7 >= 5}

Conserved == DashTotal = 3 * Cardinality(WeekdayDays) + 2 * Cardinality(WeekendDays)

\* C9 as stated: after a feasible solve the dashboard counts A + B + D add
\* up to 3 per Monday-to-Friday day and 2 per Saturday or Sunday of the cycle.
C9_Original == (Exported /\ Feasible) => Conserved

\* C9 amended: the counts add up to that value when the cycle starts on a
\* Monday and the pre-cycle-A-name is a name of the Consultants sheet; a B
\* of the first day that names nobody on the sheet, and the empty roles of
\* the days before the first week anchor, are counted for nobody.
C9_ConservationFromMonday ==
    (Exported /\ Feasible) =>
        /\ (CycleStart % 7 = 0 /\ ConfiguredPrevA \in DashNames) => Conserved
        /\ DashTotal <= 3 * Cardinality(WeekdayDays) + 2 * Cardinality(WeekendDays)
        /\ (CycleStart % 7 = 0 /\ CycleStart <= CycleEnd /\ ConfiguredPrevA \notin DashNames) =>
              DashTotal = 3 * Cardinality(WeekdayDays) + 2 * Cardinality(WeekendDays) - 1

\* a feasible rota of two weeks starting on a Monday with a sheet name
\* configured for the first B
C9_Witness ==
    /\ Exported /\ Feasible
    /\ CycleStart % 7 = 0
    /\ ConfiguredPrevA \in DashNames
    /\ Cardinality(Anchors) >= 2
    /\ Cardinality(WeekendDays) >= 3

\* scenario S1: the four-consultant sheet, four weeks from a Monday, no
\* leave, no bank holidays, default flags
IsS1 ==
    /\ wb.Consultants = RosterS1
    /\ "CycleEndDate" \in DOMAIN wb.Config
    /\ CycleStart = 0 /\ CycleEnd = 27
    /\ wb.Leave = <<>> /\ wb.BankHolidays = {}
    /\ args = DefaultArgs

AssignedBlocks ==
    {<<wk, k>> \in (DOMAIN sol.assignments) \X AllKinds : k \in DOMAIN sol.assignments[wk]}

\* C10 as stated: in scenario S1 the solver, unless it runs out of time,
\* reports OPTIMAL or FEASIBLE and all 20 blocks have an assignee.
C10_Original ==
    (IsS1 /\ Solved /\ sol.status # "UNKNOWN") =>
        /\ sol.status \in {"OPTIMAL", "FEASIBLE"}
        /\ Cardinality(AssignedBlocks) = 20

\* C10 amended: in scenario S1 the hard constraints admit no solution, since
\* the five blocks of a week need five different consultants: the status is
\* never OPTIMAL or FEASIBLE, the four weeks are reported and none of the 20
\* blocks has an assignee.
C10_S1Infeasible ==
    (IsS1 /\ Solved) =>
        /\ sol.status \in {"INFEASIBLE", "UNKNOWN"}
        /\ Len(sol.weeks) = 4
        /\ AssignedBlocks = {}

C10_Witness == IsS1 /\ Solved /\ sol.status = "INFEASIBLE"

HasFlag(row, name) == name \in Range(row.flags)

\* the data model of the Consultants sheet: every named row has a WTE above 0
WellFormedWte == \A r \in SheetRows : r.name # "" => r.wte > 0

CycleDays == IF CycleEnd >= CycleStart THEN CycleEnd - CycleStart + 1 ELSE 0

HasWindow == {"CycleStartDate", "CycleEndDate"} \subseteq DOMAIN wb.Config

\* C12 as stated: a configured cycle end earlier than the cycle start ends
\* the run in an input error: the solver is not reached, no OPTIMAL or
\* FEASIBLE status is reported and nothing is exported.
C12_Original ==
    (HasWindow /\ CycleEnd < CycleStart /\ pc # "read_inputs") =>
        /\ pc = "input_error"
        /\ sol.status \notin {"OPTIMAL", "FEASIBLE"}
        /\ out = NoOut

HoldsRequest(c, q) ==
    c.A = q.name /\ c.B = q.start_date /\ c.C = q.end_date /\ c.E = <<q.approved>>

\* request p does not come after request q in the order by (start_date, name)
NotAfter(p, q) ==
    \/ p.start_date < q.start_date
    \/ p.start_date = q.start_date /\ name_rank(p.name) <= name_rank(q.name)

\* the Leave region of sheet ws is the requests reqs, one row each from row 2
\* on, ordered by (start_date, name), and every other row is empty
IsCompiled(ws, reqs) ==
    LET n == Cardinality(DOMAIN reqs)
    IN \E f \in [1..n -> DOMAIN reqs] :
          /\ \A j \in 1..n : \A k \in 1..n : f[j] = f[k] => j = k
          /\ \A k \in 1..n : HoldsRequest(ws[k + 1], reqs[f[k]])
          /\ \A k \in 1..(n - 1) : NotAfter(reqs[f[k]], reqs[f[k + 1]])
          /\ \A r \in Rows : r - 1 > n => ws[r].A = ""

\* C14 as stated: after a compile with "Replace Leave sheet rows" on, the
\* Leave region of the saved workbook is the current requests, one row
\* each, ordered by (start_date, name), and no row from before the compile
\* is left, whatever the sheet held before and whatever the requests are.
C14_Original ==
    (app = "dropbox" /\ ui.op = "compile_replace") => IsCompiled(leave_ws, requests)

\* every record of the master sheet is in the row it was given when added
InGivenRow ==
    app = "master" => \A r \in Rows : leave_ws[r].A # "" => leave_ws[r].given = r

\* a step of the admin app: Delete row clears one row that held a record and
\* changes no other row, Save changes writes one row that held a record,
\* keeps its record there and changes no other row, and an add changes no
\* row that held a record
FrameStep ==
    app = "master" =>
        /\ (ui'.op = "delete" /\ ui'.result = "ok") =>
              \E r \in row_ids(leave_ws) : leave_ws' = [leave_ws EXCEPT ![r] = EmptyCells]
        /\ (ui'.op = "save" /\ ui'.result = "ok") =>
              \E r \in row_ids(leave_ws) :
                  /\ leave_ws'[r].A # ""
                  /\ leave_ws'[r].given = leave_ws[r].given
                  /\ \A q \in Rows \ {r} : leave_ws'[q] = leave_ws[q]
        /\ (ui'.op = "add" /\ ui'.result = "ok") =>
              /\ \A q \in row_ids(leave_ws) : leave_ws'[q] = leave_ws[q]
              /\ \E r \in Rows \ row_ids(leave_ws) :
                    /\ leave_ws'[r].A # ""
                    /\ \A q \in Rows \ {r} : leave_ws'[q] = leave_ws[q]

\* C15: in the admin app, after any sequence of adds, edits and deletes every
\* record of the Leave sheet is in the row it was given when it was added;
\* a delete clears the selected row only and moves no other row, an edit
\* writes the selected row only, and an add takes a row that held no record.
C15_RowsKeepTheirRecords == [] InGivenRow /\ [][FrameStep]_vars

\* a delete has cleared row 2 and the record below it is still in row 3
C15_Witness ==
    /\ app = "master"
    /\ ui.op = "delete"
    /\ leave_ws[2].A = ""
    /\ leave_ws[3].A # "" /\ leave_ws[3].given = 3

\* a step of a front end: an add or a save whose "Date to" is before its
\* "Date from" ends in an error and writes neither the Leave sheet nor a
\* request file; a delete goes through whatever the dates of its form are
\* and removes a record
DateCheckStep ==
    /\ (ui'.op \in {"add", "save"} /\ ui'.end < ui'.start) =>
          /\ ui'.result = "error"
          /\ leave_ws' = leave_ws
          /\ requests' = requests
    /\ ui'.op = "delete" =>
          /\ ui'.result = "ok"
          /\ app = "master" =>
                \E r \in row_ids(leave_ws) : leave_ws'[r].A = ""
          /\ app = "dropbox" =>
                \E id \in DOMAIN requests : id \notin DOMAIN requests'

\* C16: in the three front ends an add or a save-edit with an end date
\* before its start date is rejected with an error and leaves the Leave rows
\* and the request files as they were; a delete is not subject to the date
\* check.
C16_DateCheck == [][DateCheckStep]_vars

\* the requests app has rejected a save-edit of an existing request
C16_Witness ==
    /\ app = "dropbox"
    /\ ui.op = "save" /\ ui.end < ui.start /\ ui.result = "error"
    /\ DOMAIN requests # {}

\* C17: the week anchors solve computes are exactly the Mondays of
\* [start, end], in increasing order and 7 days apart; the first is the
\* earliest Monday on or after start, start itself when start is a Monday;
\* there is none when no Monday lies in [start, end].
C17_WeekAnchors ==
    Solved =>
        /\ Range(sol.weeks) = Anchors
        /\ Len(sol.weeks) = Cardinality(Anchors)
        /\ \A k \in 1..(Len(sol.weeks) - 1) : sol.weeks[k + 1] = sol.weeks[k] + 7
        /\ sol.weeks # <<>> =>
              /\ sol.weeks[1] >= CycleStart
              /\ sol.weeks[1] % 7 = 0
              /\ \A d \in CycleStart..(sol.weeks[1] - 1) : d % 7 # 0
              /\ CycleStart % 7 = 0 => sol.weeks[1] = CycleStart

\* a cycle starting on a Monday with two anchors, the start being the first
C17_Witness == Solved /\ CycleStart = 0 /\ sol.weeks = <<0, 7>>

IsActiveRow(r) == r.name # "" /\ r.active

\* the workbook without the Consultants rows whose active cell is false
WithoutInactive == [wb EXCEPT !.Consultants = SelectSeq(wb.Consultants, IsActiveRow)]

\* the consultants holding a block in the solution
Assignees ==
    UNION {{sol.assignments[wk][b] : b \in DOMAIN sol.assignments[wk]} :
             wk \in DOMAIN sol.assignments}

\* C18: the outputs do not depend on inactive consultants: with the block
\* assignment and the rota fixed, the dashboard has the same rows, and the
\* same expected total and expected bank-holiday value for each active
\* consultant, as for the workbook without its inactive rows; no inactive
\* consultant holds a block.
C18_Original ==
    Exported =>
        LET D0 == dashboard(WithoutInactive, sol, out.Rota)
        IN /\ DOMAIN out.Dashboard = DOMAIN D0
           /\ \A nm \in ActiveNames \cap DOMAIN out.Dashboard \cap DOMAIN D0 :
                 /\ out.Dashboard[nm].exp = D0[nm].exp
                 /\ out.Dashboard[nm].bh_exp = D0[nm].bh_exp
           /\ Assignees \subseteq ActiveNames

\* the weight of a block kind
Weight(k) == IF k \in {"AB1", "AB2", "DMonThu", "WeekendAB"} THEN 4 ELSE 3

Slots(asg) == (DOMAIN asg) \X AllKinds

\* the weighted blocks, the bank holidays on block days and the weekend
\* blocks nm holds in the assignment asg (week anchor -> kind -> name)
DutyOf(asg, nm) ==
    SumOver([s \in Slots(asg) |-> Weight(s[2]) * Bit(asg[s[1]][s[2]] = nm)], Slots(asg))

BankHolidaysOf(asg, nm) ==
    SumOver([s \in Slots(asg) |->
               Cardinality(SpecBlockDays(s[1], s[2]) \cap wb.BankHolidays)
                 * Bit(asg[s[1]][s[2]] = nm)], Slots(asg))

WeekendsOf(asg, nm) ==
    SumOver([s \in Slots(asg) |->
               Bit(s[2] \in {"WeekendAB", "WeekendMixed"} /\ asg[s[1]][s[2]] = nm)],
            Slots(asg))

\* sum_c |1000 total_c - exp_T[c]| + 3 sum_c |1000 bh_c - exp_B[c]|
\*   + 2 sum_c |1000 weekends_c - exp_W[c]| over the consultants read
FairnessValue(asg) ==
    LET exp == expected_shares(inp)
        N == Len(inp.consultants)
        nm == [i \in 1..N |-> inp.consultants[i].name]
    IN SumTo([i \in 1..N |->
                Abs(1000 * DutyOf(asg, nm[i]) - exp.T[i])
                  + 3 * Abs(1000 * BankHolidaysOf(asg, nm[i]) - exp.B[i])
                  + 2 * Abs(1000 * WeekendsOf(asg, nm[i]) - exp.W[i])], N)

\* C19: on OPTIMAL or FEASIBLE the reported objective is the fairness value
\* of the returned assignment (block weights 4,4,4,4,3, bank holidays counted
\* over block days), and on OPTIMAL no assignment satisfying the hard
\* constraints has a smaller fairness value (compared when solve returns).
C19_ObjectiveMinimised ==
    /\ Feasible => sol.objective = <<FairnessValue(sol.assignments)>>
    /\ (pc = "export" /\ sol.status = "OPTIMAL") =>
          \A a \in feasible_set(inp, solve_flags(args)) :
              FairnessValue(extract_assignments(inp, a)) >= sol.objective[1]

\* an optimal solve of a week with bank holidays whose shares cannot be met
\* exactly
C19_Witness ==
    /\ Solved /\ sol.status = "OPTIMAL"
    /\ wb.BankHolidays # {}
    /\ sol.objective[1] > 0

\* the consultant of block k of the week d lies in, "" when that week has no
\* assignment
BlockHolder(d, k) ==
    LET wk == d - (d % 7)
    IN IF wk \in DOMAIN sol.assignments /\ k \in DOMAIN sol.assignments[wk]
       THEN sol.assignments[wk][k] ELSE ""

ExpectedA(d) ==
    CASE d % 7 \in {0, 2} -> BlockHolder(d, "AB1")
      [] d % 7 \in {1, 3} -> BlockHolder(d, "AB2")
      [] d % 7 \in {4, 6} -> BlockHolder(d, "WeekendAB")
      [] d % 7 = 5 -> BlockHolder(d, "WeekendMixed")

ExpectedD(d) ==
    CASE d % 7 <= 3 -> BlockHolder(d, "DMonThu")
      [] d % 7 = 4 -> BlockHolder(d, "WeekendMixed")
      [] d % 7 >= 5 -> ""

MonToFri(d) == d % 7 <= 4

\* C20: every day of [start, end] has one Rota row; its A is the holder of
\* AB1 on Mon/Wed, AB2 on Tue/Thu, WeekendAB on Fri/Sun, WeekendMixed on Sat,
\* its D the holder of DMonThu on Mon-Thu, of WeekendMixed on Fri, empty on
\* Sat/Sun; each flag is in the flags cell exactly when its condition holds;
\* D_SHOULD_BE_BLANK_WEEKEND is never there.
C20_RolesAndFlags ==
    Exported =>
        /\ Len(out.Rota) = CycleDays
        /\ \A k \in DOMAIN out.Rota :
             LET row == out.Rota[k]
                 d == row.date
             IN /\ d = CycleStart + k - 1
                /\ row.A = ExpectedA(d)
                /\ row.D = ExpectedD(d)
                /\ HasFlag(row, "MISSING_A") <=> row.A = ""
                /\ HasFlag(row, "MISSING_B") <=> row.B = ""
                /\ HasFlag(row, "MISSING_D") <=> (MonToFri(d) /\ row.D = "")
                /\ HasFlag(row, "A_ON_LEAVE") <=> (row.A # "" /\ OnApprovedLeave(row.A, d))
                /\ HasFlag(row, "B_ON_LEAVE") <=> (row.B # "" /\ OnApprovedLeave(row.B, d))
                /\ HasFlag(row, "D_ON_LEAVE") <=> (row.D # "" /\ OnApprovedLeave(row.D, d))
                /\ HasFlag(row, "CARDIAC_XOR_BREACH") <=>
                      (MonToFri(d) /\ (IsCardiac(row.A) <=> IsCardiac(row.D)))
                /\ HasFlag(row, "BANK_HOLIDAY") <=> d \in wb.BankHolidays
                /\ ~HasFlag(row, "D_SHOULD_BE_BLANK_WEEKEND")
                /\ Cardinality(Range(row.flags)) = Len(row.flags)

\* an exported rota with a solution, a Saturday row with A and no D, and a
\* bank-holiday row
C20_Witness ==
    /\ Exported /\ Feasible
    /\ \E k \in DOMAIN out.Rota :
          out.Rota[k].date % 7 = 5 /\ out.Rota[k].A # "" /\ out.Rota[k].D = ""
    /\ \E k \in DOMAIN out.Rota : HasFlag(out.Rota[k], "BANK_HOLIDAY")

\* C22: when the solve is feasible no row of the exported rota carries
\* A_ON_LEAVE or D_ON_LEAVE, and no row but the one of the first day of the
\* cycle carries B_ON_LEAVE.
C22_NoLeaveFlags ==
    (Exported /\ Feasible) =>
        \A k \in DOMAIN out.Rota :
            /\ ~HasFlag(out.Rota[k], "A_ON_LEAVE")
            /\ ~HasFlag(out.Rota[k], "D_ON_LEAVE")
            /\ out.Rota[k].date # CycleStart => ~HasFlag(out.Rota[k], "B_ON_LEAVE")

\* a feasible week in which an assignee has approved leave on a day of the
\* cycle, and the configured name is on leave on the first day
C22_Witness ==
    /\ Exported /\ Feasible
    /\ out.Rota # <<>>
    /\ HasFlag(out.Rota[1], "B_ON_LEAVE")
    /\ \E nm \in Assignees : \E d \in CycleStart..CycleEnd : OnApprovedLeave(nm, d)

\* session p has ticked the lock checkbox, acquire_lock has returned True for
\* it and its release_lock has not run yet
HoldsLock(p) ==
    /\ sessions[p].form.enable_lock
    /\ sessions[p].pc \in {"locked", "opened", "saved"}

\* session p is between load_workbook and wb.save
InWrite(p) == sessions[p].pc = "opened"

MutualExclusion ==
    \A p \in DOMAIN sessions : \A q \in (DOMAIN sessions) \ {p} :
        /\ ~(HoldsLock(p) /\ HoldsLock(q))
        /\ (sessions[p].form.enable_lock /\ sessions[q].form.enable_lock)
              => ~(InWrite(p) /\ InWrite(q))

\* a step in which a session removes the lock file removes a file it wrote
RemovesOwnLock ==
    \A p \in DOMAIN sessions :
        (sessions[p].pc = "saved" /\ sessions'[p].pc = "idle"
           /\ sessions[p].form.enable_lock /\ lock /\ ~lock')
          => history.lock_by = p

\* C21: with the lock checkbox ticked, the lock file gives mutual exclusion
\* between the sessions of the admin app: no two sessions hold the lock at
\* once, so no two are between load_workbook and wb.save at once, and a
\* session removes only a lock file it wrote itself.
C21_Original == [] MutualExclusion /\ [][RemovesOwnLock]_vars

\* session p saves the workbook of a Save changes or a Delete row
SavesEdit(p) ==
    /\ sessions[p].pc = "opened" /\ sessions'[p].pc = "saved"
    /\ sessions[p].form.op \in {"save", "delete"}

\* session p saves the workbook of an add that found an empty row
SavesAdd(p) ==
    /\ sessions[p].pc = "opened" /\ sessions'[p].pc = "saved"
    /\ sessions[p].form.op = "add"
    /\ next_empty_row(sessions[p].wbm) \in Rows

\* a save of an edit or a delete for RowID r changes or removes no record of
\* the file but the one the session showed for r; a save of an add puts the
\* new record in a row no delete has freed
StaleRowStep ==
    \A p \in DOMAIN sessions :
        /\ SavesEdit(p) =>
              \A q \in Rows :
                  (/\ history.holds[q] # 0
                   /\ \/ leave_ws'[q] # leave_ws[q]
                      \/ history'.holds[q] # history.holds[q])
                    => history.holds[q] = sessions[p].form.seen
        /\ SavesAdd(p) => next_empty_row(sessions[p].wbm) \notin history.freed

\* C23: in the admin app, under any interleaving of two sessions, a Save
\* changes or a Delete row submitted for RowID r changes only the record the
\* submitting session showed for r, and an add never takes a row number a
\* delete has freed.
C23_Original == [][StaleRowStep]_vars

====
